---- MODULE Spec2Model ----
\* go-crypto (agilira/go-crypto): AES-256-GCM encryption helpers and Argon2id /
\* PBKDF2 key derivation, modelled call by call.  The package keeps no state of
\* its own; the state of the model is the last call made by a client (its
\* arguments, its results, the ordered steps it executed) together with the
\* envelope a successful encryption returned, which the decryption that follows
\* takes its inputs from.  A client encrypts or derives a key from scratch,
\* decrypts once, and then discards what it holds.
EXTENDS Integers, Sequences, FiniteSets, TLC

VARIABLES op, args, out, steps, sealed, derived, calls, mem

vars == <<op, args, out, steps, sealed, derived, calls, mem>>

\* ------------------------------------------------------------------ bounds
\* Longest plaintext a client encrypts.
MaxPlain == 2
MaxGoroutines == 2

\* --------------------------------------------------------------- constants
KeySize == 32
\* gcm.NonceSize() of the standard GCM mode.
NonceSize == 12
\* Length of the authentication tag gcm.Seal appends.
TagSize == 16
\* Block size of the AES block handed to cipher.NewGCM.
AesBlockSize == 16

DefaultTime == 3
DefaultMemory == 64
DefaultThreads == 4

\* ------------------------------------------------------------ byte helpers
RECURSIVE XorBits(_, _, _)
XorBits(a, b, n) ==
    IF n = 0 THEN 0
    ELSE ((a + b) % 2) + 2 * XorBits(a \div 2, b \div 2, n - 1)

\* Bitwise exclusive or of two bytes.
Xor(a, b) == XorBits(a, b, 8)

RECURSIVE SumAt(_, _, _)
\* Sum of s[j], s[j + stride], s[j + 2*stride], ...
SumAt(s, j, stride) ==
    IF j > Len(s) THEN 0 ELSE s[j] + SumAt(s, j + stride, stride)

\* --------------------------------------------------- base64.StdEncoding
\* A character of a text is its index in the standard alphabet (0..63), or one
\* of three characters outside it: the padding character '=', a line break
\* (CR or LF, which the decoder skips), or any other byte.
PadChar == 64
NewlineChar == 65
BadChar == 66
Chars == 0..66

\* One quantum of the encoder: 1..3 bytes become 4 characters.
EncodeGroup(b) ==
    LET b1 == b[1]
        b2 == IF Len(b) >= 2 THEN b[2] ELSE 0
        b3 == IF Len(b) >= 3 THEN b[3] ELSE 0
        c1 == b1 \div 4
        c2 == (b1 % 4) * 16 + (b2 \div 16)
        c3 == (b2 % 16) * 4 + (b3 \div 64)
        c4 == b3 % 64
    IN  IF Len(b) >= 3 THEN <<c1, c2, c3, c4>>
        ELSE IF Len(b) = 2 THEN <<c1, c2, c3, PadChar>>
        ELSE <<c1, c2, PadChar, PadChar>>

RECURSIVE EncodeToString(_)
\* base64.StdEncoding.EncodeToString
EncodeToString(src) ==
    IF Len(src) = 0 THEN <<>>
    ELSE IF Len(src) <= 3 THEN EncodeGroup(src)
    ELSE EncodeGroup(SubSeq(src, 1, 3)) \o EncodeToString(SubSeq(src, 4, Len(src)))

\* One quantum of the decoder: 2..4 alphabet characters become 1..3 bytes.  The
\* decoder is not strict: the unused low bits of the last character of a padded
\* quantum are dropped without being checked.
DecodeGroup(c) ==
    LET c3 == IF Len(c) >= 3 THEN c[3] ELSE 0
        c4 == IF Len(c) >= 4 THEN c[4] ELSE 0
        b1 == c[1] * 4 + (c[2] \div 16)
        b2 == (c[2] % 16) * 16 + (c3 \div 4)
        b3 == (c3 % 4) * 64 + c4
    IN  IF Len(c) >= 4 THEN <<b1, b2, b3>>
        ELSE IF Len(c) = 3 THEN <<b1, b2>>
        ELSE <<b1>>

RECURSIVE DecodeGroups(_)
DecodeGroups(data) ==
    IF Len(data) = 0 THEN <<>>
    ELSE IF Len(data) <= 4 THEN DecodeGroup(data)
    ELSE DecodeGroup(SubSeq(data, 1, 4)) \o DecodeGroups(SubSeq(data, 5, Len(data)))

\* base64.StdEncoding.DecodeString: line breaks are skipped wherever they
\* stand; what is left must be whole quanta of four characters, all of the
\* alphabet but for one or two padding characters closing the last quantum.
DecodeString(s) ==
    LET t == SelectSeq(s, LAMBDA c : c # NewlineChar)
        n == Len(t)
        npad == IF n >= 2 /\ t[n] = PadChar /\ t[n - 1] = PadChar THEN 2
                ELSE IF n >= 1 /\ t[n] = PadChar THEN 1
                ELSE 0
        data == SubSeq(t, 1, n - npad)
        ok == /\ n % 4 = 0
              /\ \A i \in 1..Len(data) : data[i] \in 0..63
    IN  [ok |-> ok, bytes |-> IF ok THEN DecodeGroups(data) ELSE <<>>]

\* ------------------------------------------------------------ AES-256-GCM
\* The cipher of crypto/aes and crypto/cipher is modelled as an ideal AEAD over
\* the model's inputs: a stream cipher keyed by (key, nonce) and a tag that
\* depends on every byte of the key, of the nonce and of the sealed text.

\* aes.NewCipher accepts keys of 16, 24 and 32 bytes.
AesNewCipherOk(key) == Len(key) \in {16, 24, 32}

\* cipher.NewGCM accepts blocks of 128 bits.
NewGCMOk == AesBlockSize = 16

KeyStream(key, nonce, i) ==
    (key[((i - 1) % Len(key)) + 1] + nonce[((i - 1) % NonceSize) + 1] + i) % 256

GcmCrypt(key, nonce, data) ==
    [i \in 1..Len(data) |-> Xor(data[i], KeyStream(key, nonce, i))]

GcmTag(key, nonce, ct) ==
    [i \in 1..TagSize |->
        ( key[i] + 3 * key[i + TagSize]
        + 5 * SumAt(nonce, i, TagSize)
        + 7 * SumAt(ct, i, TagSize)
        + (IF i = TagSize THEN Len(ct) ELSE 0) ) % 256]

\* gcm.Seal(dst, nonce, plaintext, nil): the sealed text and its tag are
\* appended to dst.
GcmSeal(dst, key, nonce, plaintext) ==
    LET ct == GcmCrypt(key, nonce, plaintext)
    IN  dst \o ct \o GcmTag(key, nonce, ct)

\* gcm.Open(nil, nonce, ciphertext, nil): fails when the input is shorter than
\* the tag or the tag does not match; the plaintext is released only after the
\* tag was verified.
GcmOpen(key, nonce, ciphertext) ==
    IF Len(ciphertext) < TagSize
    THEN [ok |-> FALSE, plaintext |-> <<>>]
    ELSE LET n == Len(ciphertext) - TagSize
             ct == SubSeq(ciphertext, 1, n)
             tag == SubSeq(ciphertext, n + 1, Len(ciphertext))
         IN  IF tag # GcmTag(key, nonce, ct)
             THEN [ok |-> FALSE, plaintext |-> <<>>]
             ELSE [ok |-> TRUE, plaintext |-> GcmCrypt(key, nonce, ct)]

\* ------------------------------------------------------------------ errors
\* fmt.Errorf("%w: %w", sentinel, richErr): the sentinel, the code and the
\* message of the rich error, the values formatted into the message, and the
\* error the rich error wraps.
Err(sentinel, code, msg, fmtArgs, cause) ==
    [sentinel |-> sentinel, code |-> code, msg |-> msg, fmtArgs |-> fmtArgs,
     cause |-> cause]

NoError == Err("nil", "", "", <<>>, "")

\* Variant: the message shows the key itself.
ErrInvalidKeySize_ShowsKey(key) ==
    Err("ErrInvalidKeySize", "CRYPTO_INVALID_KEY",
        "invalid key size: must be 32 bytes for AES-256 (got %v)", key, "")

ErrInvalidKeySize(key) ==
    Err("ErrInvalidKeySize", "CRYPTO_INVALID_KEY",
        "invalid key size: must be 32 bytes for AES-256 (got %d)", <<Len(key)>>, "")

ErrEmptyPlaintext ==
    Err("ErrEmptyPlaintext", "CRYPTO_EMPTY_PLAINTEXT",
        "encrypted text cannot be empty", <<>>, "")

ErrCipherInit ==
    Err("ErrCipherInit", "CRYPTO_CIPHER_INIT", "failed to create cipher", <<>>,
        "aes.KeySizeError")

ErrGCMInit ==
    Err("ErrGCMInit", "CRYPTO_GCM_INIT", "failed to create GCM", <<>>,
        "cipher: NewGCM requires 128-bit block cipher")

ErrNonceGen ==
    Err("ErrNonceGen", "CRYPTO_NONCE_GEN", "failed to generate nonce", <<>>,
        "rand.Reader")

ErrBase64Decode ==
    Err("ErrBase64Decode", "CRYPTO_BASE64_DECODE", "failed to decode base64", <<>>,
        "base64.CorruptInputError")

ErrCiphertextShort ==
    Err("ErrCiphertextShort", "CRYPTO_CIPHERTEXT_SHORT", "ciphertext too short",
        <<>>, "")

ErrDecrypt ==
    Err("ErrDecrypt", "CRYPTO_DECRYPT", "failed to decrypt", <<>>,
        "cipher: message authentication failed")

\* A run-time panic (a slice out of range, a panic of a library call): the
\* call does not return.
Panic(msg) == Err("panic", "", msg, <<>>, "")

\* ------------------------------------------------------------- operations
\* What a call returns, with the steps it executed in order.
Ret(data, err, done) == [data |-> data, err |-> err, steps |-> done]

\* Variant: only keys that are too short are rejected.
BadKeySize_OnlyShorter(key) == Len(key) < KeySize

\* if len(key) != KeySize
BadKeySize(key) == Len(key) # KeySize

\* Variant: only the empty envelope is rejected.
TooShort_EmptyOnly(ciphertext) == Len(ciphertext) = 0

\* Variant: an envelope without room for the tag is rejected as too short.
TooShort_NeedsTag(ciphertext) == Len(ciphertext) < NonceSize + TagSize

\* if len(ciphertext) < gcm.NonceSize()
TooShort(ciphertext) == Len(ciphertext) < NonceSize

\* Variant: gcm.Seal(nil, nonce, plaintext, nil), the nonce is not kept.
SealEnvelope_NilDst(key, nonce, plaintext) == GcmSeal(<<>>, key, nonce, plaintext)

\* ciphertext := gcm.Seal(nonce, nonce, plaintext, nil)
SealEnvelope(key, nonce, plaintext) == GcmSeal(nonce, key, nonce, plaintext)

\* EncryptBytes(plaintext, key); rnd is what reading rand.Reader gives.
EncryptBytes(plaintext, key, rnd) ==
    IF BadKeySize(key)
    THEN Ret(<<>>, ErrInvalidKeySize(key), <<"checkKeySize">>)
    ELSE IF ~AesNewCipherOk(key)
    THEN Ret(<<>>, ErrCipherInit, <<"checkKeySize", "NewCipher">>)
    ELSE IF ~NewGCMOk
    THEN Ret(<<>>, ErrGCMInit, <<"checkKeySize", "NewCipher", "NewGCM">>)
    ELSE IF ~rnd.ok
    THEN Ret(<<>>, ErrNonceGen, <<"checkKeySize", "NewCipher", "NewGCM", "ReadNonce">>)
    ELSE Ret(EncodeToString(SealEnvelope(key, rnd.bytes, plaintext)), NoError,
             <<"checkKeySize", "NewCipher", "NewGCM", "ReadNonce", "Seal",
               "EncodeToString">>)

\* Variant: the sealed text is taken from the last byte of the nonce on.
OpenEnvelope_SplitOffByOne(ciphertext, key, done) ==
    IF Len(ciphertext) < NonceSize
    THEN Ret(<<>>, ErrCiphertextShort, done \o <<"checkNonceLen">>)
    ELSE LET nonce == SubSeq(ciphertext, 1, NonceSize)
             rest == SubSeq(ciphertext, NonceSize, Len(ciphertext))
             opened == GcmOpen(key, nonce, rest)
         IN  IF ~opened.ok
             THEN Ret(<<>>, ErrDecrypt, done \o <<"checkNonceLen", "Open">>)
             ELSE Ret(opened.plaintext, NoError, done \o <<"checkNonceLen", "Open">>)

\* Variant: a failed gcm.Open is reported with the error of the length check.
OpenEnvelope_ShortOnAuthFail(ciphertext, key, done) ==
    IF Len(ciphertext) < NonceSize
    THEN Ret(<<>>, ErrCiphertextShort, done \o <<"checkNonceLen">>)
    ELSE LET nonce == SubSeq(ciphertext, 1, NonceSize)
             rest == SubSeq(ciphertext, NonceSize + 1, Len(ciphertext))
             opened == GcmOpen(key, nonce, rest)
         IN  IF ~opened.ok
             THEN Ret(<<>>, ErrCiphertextShort, done \o <<"checkNonceLen", "Open">>)
             ELSE Ret(opened.plaintext, NoError, done \o <<"checkNonceLen", "Open">>)

\* Variant: a failed gcm.Open returns the buffer it was given with the error.
OpenEnvelope_BufferOnFail(ciphertext, key, done) ==
    IF Len(ciphertext) < NonceSize
    THEN Ret(<<>>, ErrCiphertextShort, done \o <<"checkNonceLen">>)
    ELSE LET nonce == SubSeq(ciphertext, 1, NonceSize)
             rest == SubSeq(ciphertext, NonceSize + 1, Len(ciphertext))
             opened == GcmOpen(key, nonce, rest)
         IN  IF ~opened.ok
             THEN Ret(rest, ErrDecrypt, done \o <<"checkNonceLen", "Open">>)
             ELSE Ret(opened.plaintext, NoError, done \o <<"checkNonceLen", "Open">>)

\* Variant: the length of the sealed text is checked after gcm.Open ran.
OpenEnvelope_CheckAfterOpen(ciphertext, key, done) ==
    IF Len(ciphertext) < NonceSize
    THEN Ret(<<>>, ErrCiphertextShort, done \o <<"checkNonceLen">>)
    ELSE LET nonce == SubSeq(ciphertext, 1, NonceSize)
             rest == SubSeq(ciphertext, NonceSize + 1, Len(ciphertext))
             opened == GcmOpen(key, nonce, rest)
         IN  IF ~opened.ok
             THEN Ret(<<>>, ErrDecrypt, done \o <<"Open", "checkNonceLen">>)
             ELSE Ret(opened.plaintext, NoError, done \o <<"Open", "checkNonceLen">>)

\* The tail of DecryptBytes once cipher and mode exist: the length check, the
\* split into nonce and sealed text (ciphertext[:gcm.NonceSize()] panics on a
\* shorter slice), and gcm.Open.
OpenEnvelope(ciphertext, key, done) ==
    IF TooShort(ciphertext)
    THEN Ret(<<>>, ErrCiphertextShort, done \o <<"checkNonceLen">>)
    ELSE IF Len(ciphertext) < NonceSize
    THEN Ret(<<>>, Panic("slice bounds out of range"), done \o <<"checkNonceLen">>)
    ELSE LET nonce == SubSeq(ciphertext, 1, NonceSize)
             rest == SubSeq(ciphertext, NonceSize + 1, Len(ciphertext))
             opened == GcmOpen(key, nonce, rest)
         IN  IF ~opened.ok
             THEN Ret(<<>>, ErrDecrypt, done \o <<"checkNonceLen", "Open">>)
             ELSE Ret(opened.plaintext, NoError, done \o <<"checkNonceLen", "Open">>)

\* Variant: the empty input is tested before the key length.
DecryptBytes_EmptyFirst(encryptedText, key) ==
    IF encryptedText = <<>>
    THEN Ret(<<>>, ErrEmptyPlaintext, <<"checkEmpty">>)
    ELSE IF BadKeySize(key)
    THEN Ret(<<>>, ErrInvalidKeySize(key), <<"checkEmpty", "checkKeySize">>)
    ELSE LET dec == DecodeString(encryptedText)
         IN  IF ~dec.ok
             THEN Ret(<<>>, ErrBase64Decode,
                      <<"checkKeySize", "checkEmpty", "DecodeString">>)
             ELSE IF ~AesNewCipherOk(key)
             THEN Ret(<<>>, ErrCipherInit,
                      <<"checkKeySize", "checkEmpty", "DecodeString", "NewCipher">>)
             ELSE IF ~NewGCMOk
             THEN Ret(<<>>, ErrGCMInit,
                      <<"checkKeySize", "checkEmpty", "DecodeString", "NewCipher",
                        "NewGCM">>)
             ELSE OpenEnvelope(dec.bytes, key,
                      <<"checkKeySize", "checkEmpty", "DecodeString", "NewCipher",
                        "NewGCM">>)

\* DecryptBytes(encryptedText, key)
DecryptBytes(encryptedText, key) ==
    IF BadKeySize(key)
    THEN Ret(<<>>, ErrInvalidKeySize(key), <<"checkKeySize">>)
    ELSE IF encryptedText = <<>>
    THEN Ret(<<>>, ErrEmptyPlaintext, <<"checkKeySize", "checkEmpty">>)
    ELSE LET dec == DecodeString(encryptedText)
         IN  IF ~dec.ok
             THEN Ret(<<>>, ErrBase64Decode,
                      <<"checkKeySize", "checkEmpty", "DecodeString">>)
             ELSE IF ~AesNewCipherOk(key)
             THEN Ret(<<>>, ErrCipherInit,
                      <<"checkKeySize", "checkEmpty", "DecodeString", "NewCipher">>)
             ELSE IF ~NewGCMOk
             THEN Ret(<<>>, ErrGCMInit,
                      <<"checkKeySize", "checkEmpty", "DecodeString", "NewCipher",
                        "NewGCM">>)
             ELSE OpenEnvelope(dec.bytes, key,
                      <<"checkKeySize", "checkEmpty", "DecodeString", "NewCipher",
                        "NewGCM">>)

\* Encrypt(plaintext string, key): EncryptBytes([]byte(plaintext), key)
Encrypt(plaintext, key, rnd) == EncryptBytes(plaintext, key, rnd)

\* Decrypt(encryptedText, key): "" on error, string(plaintext) otherwise.
Decrypt(encryptedText, key) ==
    LET r == DecryptBytes(encryptedText, key)
    IN  IF r.err # NoError THEN Ret(<<>>, r.err, r.steps)
        ELSE Ret(r.data, NoError, r.steps)

\* --------------------------------------------------------- key derivation
RECURSIVE SumSeq(_)
SumSeq(s) == IF Len(s) = 0 THEN 0 ELSE (s[1] + SumSeq(Tail(s))) % 256

\* An int argument on a 64-bit build, in two's complement: hi * 2^32 + lo with
\* lo its low 32 bits.  GoInt(0, n) is n, GoInt(1, n) is 2^32 + n and
\* GoInt(-1, n) is n - 2^32, a negative number.
GoInt(hi, lo) == [hi |-> hi, lo |-> lo]

\* v <= 0
NonPositive(v) == v.hi < 0 \/ (v.hi = 0 /\ v.lo = 0)

\* The number v stands for; only numbers below 2^31 can be written out.
IntValue(v) == v.hi * 65536 * 65536 + v.lo

\* uint32(v): the low 32 bits.
Uint32(v) == v.lo

\* uint8(v): the low 8 bits.
Uint8(v) == v.lo % 256

\* params.Memory * 1024 in uint32 arithmetic: the product modulo 2^32.
MemoryKB(memoryMB) == (memoryMB % 4194304) * 1024

\* Variant: the key also depends on what the previous call left behind.
Argon2IDKey_Stateful(password, salt, time, memory, threads, keyLen) ==
    [i \in 1..keyLen |->
        ( SumSeq(password) + 3 * SumSeq(salt) + 5 * (time % 256)
        + 7 * ((memory \div 1024) % 256) + 11 * threads + 13 * (keyLen % 256)
        + 17 * i + Len(steps) ) % 256]

\* Variant: the salt does not reach the key.
Argon2IDKey_SaltDropped(password, salt, time, memory, threads, keyLen) ==
    [i \in 1..keyLen |->
        ( SumSeq(password) + 5 * (time % 256)
        + 7 * ((memory \div 1024) % 256) + 11 * threads + 13 * (keyLen % 256)
        + 17 * i ) % 256]

\* argon2.IDKey(password, salt, time, memory, threads, keyLen): a deterministic
\* function of all six arguments giving keyLen bytes.
Argon2IDKey(password, salt, time, memory, threads, keyLen) ==
    [i \in 1..keyLen |->
        ( SumSeq(password) + 3 * SumSeq(salt) + 5 * (time % 256)
        + 7 * ((memory \div 1024) % 256) + 11 * threads + 13 * (keyLen % 256)
        + 17 * i ) % 256]

\* goerrors.New(code, msg)
KdfErr(code, msg) == Err("", code, msg, <<>>, "")

\* A *KDFParams argument: nil, or a struct of three unsigned fields.
NilParams == [isNil |-> TRUE, Time |-> 0, Memory |-> 0, Threads |-> 0]
Params(t, m, p) == [isNil |-> FALSE, Time |-> t, Memory |-> m, Threads |-> p]

\* time := uint32(DefaultTime); if params != nil && params.Time > 0 { time = params.Time }
ResolveTime(params) ==
    IF ~params.isNil /\ params.Time > 0 THEN params.Time ELSE DefaultTime

\* Variant: the override of the memory is not scaled to KB.
ResolveMemory_Unscaled(params) ==
    IF ~params.isNil /\ params.Memory > 0 THEN params.Memory
    ELSE DefaultMemory * 1024

\* memory := uint32(DefaultMemory * 1024); ... memory = params.Memory * 1024
ResolveMemory(params) ==
    IF ~params.isNil /\ params.Memory > 0 THEN MemoryKB(params.Memory)
    ELSE DefaultMemory * 1024

\* Variant: the override of threads tests params.Time.
ResolveThreads_TestsTime(params) ==
    IF ~params.isNil /\ params.Time > 0 THEN params.Threads ELSE DefaultThreads

\* threads := uint8(DefaultThreads); ... threads = params.Threads
ResolveThreads(params) ==
    IF ~params.isNil /\ params.Threads > 0 THEN params.Threads ELSE DefaultThreads

\* Variant: the key is cut to one block of the hash.
Pbkdf2Key_OneBlock(password, salt, iterations, keyLen) ==
    [i \in 1..(IF IntValue(keyLen) > 32 THEN 32 ELSE IntValue(keyLen)) |->
        ( 2 * SumSeq(password) + 3 * SumSeq(salt) + 5 * (iterations.lo % 256)
        + 7 * iterations.hi + 13 * (IntValue(keyLen) % 256) + 19 * i ) % 256]

\* pbkdf2.Key(password, salt, iterations, keyLen, sha256.New): a deterministic
\* function of its arguments giving keyLen bytes.
Pbkdf2Key(password, salt, iterations, keyLen) ==
    [i \in 1..IntValue(keyLen) |->
        ( 2 * SumSeq(password) + 3 * SumSeq(salt) + 5 * (iterations.lo % 256)
        + 7 * iterations.hi + 13 * (IntValue(keyLen) % 256) + 19 * i ) % 256]

\* What a derivation returns: the key, the error, the steps, and the arguments
\* the primitive was called with (all zero when it was not called).
KdfRet(key, err, done, idkey) ==
    [data |-> key, err |-> err, steps |-> done, idkey |-> idkey]

NoIDKey == [time |-> 0, memory |-> 0, threads |-> 0, keyLen |-> 0]

\* key := argon2.IDKey(...); return key, nil.  argon2.IDKey panics when time or
\* threads is below 1.
CallIDKey(password, salt, time, memory, threads, keyLen, done) ==
    LET idkey == [time |-> time, memory |-> memory, threads |-> threads,
                  keyLen |-> keyLen]
    IN  IF time < 1
        THEN KdfRet(<<>>, Panic("argon2: number of rounds too small"),
                    done \o <<"IDKey">>, idkey)
        ELSE IF threads < 1
        THEN KdfRet(<<>>, Panic("argon2: parallelism degree too low"),
                    done \o <<"IDKey">>, idkey)
        ELSE KdfRet(Argon2IDKey(password, salt, time, memory, threads, keyLen),
                    NoError, done \o <<"IDKey">>, idkey)

\* DeriveKey(password, salt, keyLen, params)
DeriveKey(password, salt, keyLen, params) ==
    IF Len(password) = 0
    THEN KdfRet(<<>>, KdfErr("EMPTY_PASSWORD", "password cannot be empty"),
                <<"checkPassword">>, NoIDKey)
    ELSE IF Len(salt) = 0
    THEN KdfRet(<<>>, KdfErr("EMPTY_SALT", "salt cannot be empty"),
                <<"checkPassword", "checkSalt">>, NoIDKey)
    ELSE IF NonPositive(keyLen)
    THEN KdfRet(<<>>, KdfErr("INVALID_KEYLEN", "key length must be positive"),
                <<"checkPassword", "checkSalt", "checkKeyLen">>, NoIDKey)
    ELSE CallIDKey(password, salt, ResolveTime(params), ResolveMemory(params),
                   ResolveThreads(params), Uint32(keyLen),
                   <<"checkPassword", "checkSalt", "checkKeyLen">>)

\* DeriveKeyDefault(password, salt, keyLen)
DeriveKeyDefault(password, salt, keyLen) ==
    DeriveKey(password, salt, keyLen, NilParams)

\* Variant: a non-positive time is replaced by the default.
DeriveKeyWithParams_DefaultTime(password, salt, time, memoryMB, threads, keyLen) ==
    IF Len(password) = 0
    THEN KdfRet(<<>>, KdfErr("EMPTY_PASSWORD", "password cannot be empty"),
                <<"checkPassword">>, NoIDKey)
    ELSE IF Len(salt) = 0
    THEN KdfRet(<<>>, KdfErr("EMPTY_SALT", "salt cannot be empty"),
                <<"checkPassword", "checkSalt">>, NoIDKey)
    ELSE IF NonPositive(memoryMB)
    THEN KdfRet(<<>>, KdfErr("INVALID_MEMORY", "memory parameter must be positive"),
                <<"checkPassword", "checkSalt", "checkTime", "checkMemory">>, NoIDKey)
    ELSE IF NonPositive(threads)
    THEN KdfRet(<<>>, KdfErr("INVALID_THREADS", "threads parameter must be positive"),
                <<"checkPassword", "checkSalt", "checkTime", "checkMemory",
                  "checkThreads">>, NoIDKey)
    ELSE IF NonPositive(keyLen)
    THEN KdfRet(<<>>, KdfErr("INVALID_KEYLEN", "key length must be positive"),
                <<"checkPassword", "checkSalt", "checkTime", "checkMemory",
                  "checkThreads", "checkKeyLen">>, NoIDKey)
    ELSE CallIDKey(password, salt,
                   IF NonPositive(time) THEN DefaultTime ELSE Uint32(time),
                   MemoryKB(Uint32(memoryMB)),
                   Uint8(threads), Uint32(keyLen),
                   <<"checkPassword", "checkSalt", "checkTime", "checkMemory",
                     "checkThreads", "checkKeyLen">>)

\* DeriveKeyWithParams(password, salt, time, memoryMB, threads, keyLen); the
\* arguments are ints, narrowed by uint32(time), uint32(memoryMB*1024),
\* uint8(threads) and uint32(keyLen); the low 32 bits of memoryMB*1024 depend
\* on the low 32 bits of memoryMB only.
DeriveKeyWithParams(password, salt, time, memoryMB, threads, keyLen) ==
    IF Len(password) = 0
    THEN KdfRet(<<>>, KdfErr("EMPTY_PASSWORD", "password cannot be empty"),
                <<"checkPassword">>, NoIDKey)
    ELSE IF Len(salt) = 0
    THEN KdfRet(<<>>, KdfErr("EMPTY_SALT", "salt cannot be empty"),
                <<"checkPassword", "checkSalt">>, NoIDKey)
    ELSE IF NonPositive(time)
    THEN KdfRet(<<>>, KdfErr("INVALID_TIME", "time parameter must be positive"),
                <<"checkPassword", "checkSalt", "checkTime">>, NoIDKey)
    ELSE IF NonPositive(memoryMB)
    THEN KdfRet(<<>>, KdfErr("INVALID_MEMORY", "memory parameter must be positive"),
                <<"checkPassword", "checkSalt", "checkTime", "checkMemory">>, NoIDKey)
    ELSE IF NonPositive(threads)
    THEN KdfRet(<<>>, KdfErr("INVALID_THREADS", "threads parameter must be positive"),
                <<"checkPassword", "checkSalt", "checkTime", "checkMemory",
                  "checkThreads">>, NoIDKey)
    ELSE IF NonPositive(keyLen)
    THEN KdfRet(<<>>, KdfErr("INVALID_KEYLEN", "key length must be positive"),
                <<"checkPassword", "checkSalt", "checkTime", "checkMemory",
                  "checkThreads", "checkKeyLen">>, NoIDKey)
    ELSE CallIDKey(password, salt, Uint32(time), MemoryKB(Uint32(memoryMB)),
                   Uint8(threads), Uint32(keyLen),
                   <<"checkPassword", "checkSalt", "checkTime", "checkMemory",
                     "checkThreads", "checkKeyLen">>)

\* Variant: the key length is tested before the iteration count.
DeriveKeyPBKDF2_KeyLenFirst(password, salt, iterations, keyLen) ==
    IF Len(password) = 0
    THEN KdfRet(<<>>, KdfErr("EMPTY_PASSWORD", "password cannot be empty"),
                <<"checkPassword">>, NoIDKey)
    ELSE IF Len(salt) = 0
    THEN KdfRet(<<>>, KdfErr("EMPTY_SALT", "salt cannot be empty"),
                <<"checkPassword", "checkSalt">>, NoIDKey)
    ELSE IF NonPositive(keyLen)
    THEN KdfRet(<<>>, KdfErr("INVALID_KEYLEN", "key length must be positive"),
                <<"checkPassword", "checkSalt", "checkKeyLen">>, NoIDKey)
    ELSE IF NonPositive(iterations)
    THEN KdfRet(<<>>, KdfErr("INVALID_ITERATIONS", "iterations must be positive"),
                <<"checkPassword", "checkSalt", "checkKeyLen", "checkIterations">>,
                NoIDKey)
    ELSE KdfRet(Pbkdf2Key(password, salt, iterations, keyLen), NoError,
                <<"checkPassword", "checkSalt", "checkKeyLen", "checkIterations",
                  "pbkdf2.Key">>,
                NoIDKey)

\* DeriveKeyPBKDF2(password, salt, iterations, keyLen); both ints reach
\* pbkdf2.Key as ints, without a conversion.
DeriveKeyPBKDF2(password, salt, iterations, keyLen) ==
    IF Len(password) = 0
    THEN KdfRet(<<>>, KdfErr("EMPTY_PASSWORD", "password cannot be empty"),
                <<"checkPassword">>, NoIDKey)
    ELSE IF Len(salt) = 0
    THEN KdfRet(<<>>, KdfErr("EMPTY_SALT", "salt cannot be empty"),
                <<"checkPassword", "checkSalt">>, NoIDKey)
    ELSE IF NonPositive(iterations)
    THEN KdfRet(<<>>, KdfErr("INVALID_ITERATIONS", "iterations must be positive"),
                <<"checkPassword", "checkSalt", "checkIterations">>, NoIDKey)
    ELSE IF NonPositive(keyLen)
    THEN KdfRet(<<>>, KdfErr("INVALID_KEYLEN", "key length must be positive"),
                <<"checkPassword", "checkSalt", "checkIterations", "checkKeyLen">>,
                NoIDKey)
    ELSE KdfRet(Pbkdf2Key(password, salt, iterations, keyLen), NoError,
                <<"checkPassword", "checkSalt", "checkIterations", "checkKeyLen",
                  "pbkdf2.Key">>,
                NoIDKey)

\* ------------------------------------------------------------ key utilities
\* Characters of a hexadecimal string: 0..15 stand for '0'..'9', 'a'..'f',
\* 16..21 for 'A'..'F', HexBadChar for any other byte.
HexBadChar == 22
HexChars == 0..22

\* hex.EncodeToString(src): two lower-case digits for each byte.
RECURSIVE HexEncodeToString(_)
HexEncodeToString(src) ==
    IF Len(src) = 0 THEN <<>>
    ELSE <<src[1] \div 16, src[1] % 16>> \o HexEncodeToString(Tail(src))

\* The value of a hexadecimal digit, 16 for a byte that is not one.
FromHexChar(c) ==
    IF c \in 0..15 THEN c ELSE IF c \in 16..21 THEN c - 6 ELSE 16

\* hex.DecodeString(s): the pairs of digits as bytes; InvalidByteError with the
\* first byte that is not a digit, or ErrLength for an odd number of digits.
RECURSIVE HexDecodeString(_)
HexDecodeString(s) ==
    IF Len(s) = 0
    THEN [ok |-> TRUE, bytes |-> <<>>, cause |-> "", bad |-> <<>>]
    ELSE IF FromHexChar(s[1]) > 15
    THEN [ok |-> FALSE, bytes |-> <<>>, cause |-> "hex.InvalidByteError",
          bad |-> <<s[1]>>]
    ELSE IF Len(s) = 1
    THEN [ok |-> FALSE, bytes |-> <<>>, cause |-> "hex.ErrLength", bad |-> <<>>]
    ELSE IF FromHexChar(s[2]) > 15
    THEN [ok |-> FALSE, bytes |-> <<>>, cause |-> "hex.InvalidByteError",
          bad |-> <<s[2]>>]
    ELSE LET rest == HexDecodeString(SubSeq(s, 3, Len(s)))
         IN  IF ~rest.ok THEN rest
             ELSE [rest EXCEPT
                     !.bytes = <<16 * FromHexChar(s[1]) + FromHexChar(s[2])>> \o @]

\* KeyToBase64(key)
KeyToBase64(key) == Ret(EncodeToString(key), NoError, <<"EncodeToString">>)

\* KeyFromBase64(s)
KeyFromBase64(s) ==
    LET dec == DecodeString(s)
    IN  IF ~dec.ok
        THEN Ret(<<>>,
                 Err("", "BASE64_DECODE_ERROR", "failed to decode base64 key", <<>>,
                     "base64.CorruptInputError"),
                 <<"DecodeString">>)
        ELSE Ret(dec.bytes, NoError, <<"DecodeString">>)

\* KeyToHex(key)
KeyToHex(key) == Ret(HexEncodeToString(key), NoError, <<"hex.EncodeToString">>)

\* Variant: an odd number of digits is accepted and the last digit dropped.
KeyFromHex_DropsOddDigit(s) ==
    LET dec == HexDecodeString(SubSeq(s, 1, Len(s) - (Len(s) % 2)))
    IN  IF ~dec.ok
        THEN Ret(<<>>,
                 Err("", "HEX_DECODE_ERROR", "failed to decode hex key", <<>>,
                     dec.cause),
                 <<"hex.DecodeString">>)
        ELSE Ret(dec.bytes, NoError, <<"hex.DecodeString">>)

\* KeyFromHex(s); the error wraps that of hex.DecodeString.
KeyFromHex(s) ==
    LET dec == HexDecodeString(s)
    IN  IF ~dec.ok
        THEN Ret(<<>>,
                 Err("", "HEX_DECODE_ERROR", "failed to decode hex key", <<>>,
                     dec.cause),
                 <<"hex.DecodeString">>)
        ELSE Ret(dec.bytes, NoError, <<"hex.DecodeString">>)

\* Variant: the first byte is left as it is.
Zeroize_SkipsFirst(b) == [i \in 1..Len(b) |-> IF i = 1 THEN b[i] ELSE 0]

\* Variant: the buffer is left as it is.
Zeroize_Noop(b) == b

\* Zeroize(b): the buffer b when the call has returned.
Zeroize(b) == [i \in 1..Len(b) |-> 0]

\* sha256.Sum256(key)[:8]: eight bytes that depend on every byte of the key.
Sha256Prefix(key) ==
    [i \in 1..8 |-> (SumSeq(key) * (2 * i + 1) + Len(key) + 31 * i) % 256]

\* GetKeyFingerprint(key)
GetKeyFingerprint(key) ==
    IF Len(key) = 0
    THEN Ret(<<>>, NoError, <<"checkEmpty">>)
    ELSE Ret(HexEncodeToString(Sha256Prefix(key)), NoError,
             <<"checkEmpty", "sha256.Sum256", "Sprintf">>)

\* GenerateKey(); rnd is what reading KeySize bytes from rand.Reader gives.
GenerateKey(rnd) ==
    IF ~rnd.ok
    THEN Ret(<<>>,
             Err("", "KEY_GEN_ERROR", "failed to generate key", <<>>, "rand.Reader"),
             <<"ReadFull">>)
    ELSE Ret(rnd.bytes, NoError, <<"ReadFull">>)

\* Variant: longer keys are accepted.
ValidateKey_AtLeast(key) ==
    IF Len(key) < KeySize
    THEN Ret(<<>>,
             Err("", "INVALID_KEY_SIZE",
                 "key size must be %d bytes for AES-256, got %d",
                 <<KeySize, Len(key)>>, ""),
             <<"checkKeySize">>)
    ELSE Ret(<<>>, NoError, <<"checkKeySize">>)

\* ValidateKey(key)
ValidateKey(key) ==
    IF Len(key) # KeySize
    THEN Ret(<<>>,
             Err("", "INVALID_KEY_SIZE",
                 "key size must be %d bytes for AES-256, got %d",
                 <<KeySize, Len(key)>>, ""),
             <<"checkKeySize">>)
    ELSE Ret(<<>>, NoError, <<"checkKeySize">>)

\* Variant: the plaintext is sealed in place, gcm.Seal(plaintext[:0], ...).
SealDst_Plaintext == "plaintext"

\* The buffer gcm.Seal appends to in EncryptBytes: its local nonce.
SealDst == "nonce"

\* The caller's buffers when EncryptBytes has returned.
EncryptBytesBuffers(plaintext, key, rnd) ==
    [plaintext |->
        IF SealDst = "plaintext" /\ EncryptBytes(plaintext, key, rnd).err = NoError
        THEN GcmCrypt(key, rnd.bytes, plaintext)
        ELSE plaintext,
     key |-> key]

\* ------------------------------------------------------------------ inputs
\* The values a client passes.
Bytes(b, n) == [i \in 1..n |-> b]

GoodKeys ==
    {Bytes(1, KeySize), Bytes(2, KeySize), [i \in 1..KeySize |-> (7 * i) % 256]}
BadKeys == {Bytes(1, n) : n \in {0, 16, 24, 31, 33}}
Keys == GoodKeys \cup BadKeys

PlainBytes == {0, 255}
Plaintexts == UNION {[1..n -> PlainBytes] : n \in 0..MaxPlain}

\* Reading NonceSize bytes from rand.Reader: any nonce, or a failed read.
Nonces == {Bytes(0, NonceSize), [i \in 1..NonceSize |-> 200 + i]}
RandOutcomes ==
    {[ok |-> TRUE, bytes |-> n] : n \in Nonces} \cup {[ok |-> FALSE, bytes |-> <<>>]}

NoSealed ==
    [valid |-> FALSE, key |-> <<>>, plaintext |-> <<>>, nonce |-> <<>>, text |-> <<>>]

\* The character c with bit k of its alphabet index flipped.
FlipBit(c, k) ==
    IF (c \div (2 ^ k)) % 2 = 1 THEN c - 2 ^ k ELSE c + 2 ^ k

\* What a changed character becomes: an alphabet character with one bit
\* flipped, or a character outside the alphabet; a padding character becomes
\* an alphabet character, a line break or another byte.
Replacements(c) ==
    IF c \in 0..63
    THEN {FlipBit(c, k) : k \in 0..5} \cup {PadChar, NewlineChar, BadChar}
    ELSE {0, 63, NewlineChar, BadChar}

\* Texts that differ from t in exactly one character, at any position.
Tampered(t) ==
    UNION {{[t EXCEPT ![i] = c] : c \in Replacements(t[i])} : i \in 1..Len(t)}

\* The envelope inside a text Encrypt returned.
EnvelopeOf(t) == DecodeString(t).bytes

\* Envelopes cut short or extended by a byte, encoded again.
Resized(t) ==
    LET env == EnvelopeOf(t)
    IN  {EncodeToString(SubSeq(env, 1, n)) : n \in 1..(Len(env) - 1)}
        \cup {EncodeToString(env \o <<0>>)}

\* The byte slices the key utilities are called with: keys of every length
\* and short slices.
EncodableKeys == Keys \cup Plaintexts

\* Reading KeySize bytes from rand.Reader: any key, or a failed read.
KeyRandOutcomes ==
    {[ok |-> TRUE, bytes |-> k] : k \in GoodKeys} \cup {[ok |-> FALSE, bytes |-> <<>>]}

\* Hexadecimal strings that do not come from an encoding: empty, a byte that
\* is no digit, a lone digit, upper-case digits, a digit after a byte that is
\* none.
HexFixedTexts == {<<>>, <<HexBadChar>>, <<1>>, <<16, 21>>, <<HexBadChar, 1, 2>>}

\* What a changed digit becomes: its upper-case form, another digit, or a
\* byte that is no digit.
HexReplacements(c) ==
    (IF c \in 10..15 THEN {c + 6} ELSE {(c + 1) % 10}) \cup {HexBadChar}

\* Hexadecimal strings that differ from t in one digit, or lack its last digit.
HexTampered(t) ==
    UNION {{[t EXCEPT ![i] = c] : c \in HexReplacements(t[i])} : i \in 1..Len(t)}
    \cup {SubSeq(t, 1, Len(t) - 1) : n \in 1..(IF Len(t) > 0 THEN 1 ELSE 0)}

\* No buffer passed yet.
NoBuffers == <<>>

\* Texts that do not come from an encryption: empty, a lone line break, a byte
\* outside the alphabet, an unpadded quantum.
FixedTexts == {<<>>, <<NewlineChar>>, <<BadChar>>, <<0, 0>>, <<0, 0, 0, 0>>}

\* The (text, key) pairs a client decrypts: the sealed text and its cut or
\* extended envelopes under every key, the fixed texts under every key, and
\* every single-character change of the sealed text under the sealing key.
DecryptInputs ==
    IF op = "Zeroize" THEN {[text |-> sealed.text, key |-> mem.b]}
    ELSE
    {[text |-> t, key |-> k] : t \in FixedTexts, k \in Keys}
    \cup (IF sealed.valid
          THEN {[text |-> t, key |-> k] :
                    t \in {sealed.text} \cup Resized(sealed.text), k \in Keys}
               \cup {[text |-> t, key |-> sealed.key] : t \in Tampered(sealed.text)}
          ELSE {})

Passwords == {<<>>, <<112, 119>>}
Salts == {<<>>, <<115>>, <<116>>}
\* Key lengths: negative, zero, 1, 32, and 2^32 + 1.
KeyLens == {GoInt(-1, 5), GoInt(0, 0), GoInt(0, 1), GoInt(0, 32), GoInt(1, 1)}
\* Key lengths for pbkdf2.Key, which builds a key of the full length.
Pbkdf2KeyLens == {k \in KeyLens : k.hi <= 0} \cup {GoInt(0, 1024)}
ParamValues ==
    {NilParams}
    \cup {Params(t, m, p) : t \in {0, 2, 3}, m \in {0, 32, 64, 4194368}, p \in {0, 2, 4}}
\* Times: negative, zero, 3, and 2^32.
Times == {GoInt(-1, 5), GoInt(0, 0), GoInt(0, 3), GoInt(1, 0)}
\* Memory sizes in MB: negative, zero, 64, and 2^22 + 64.
MemoryMBs == {GoInt(-1, 5), GoInt(0, 0), GoInt(0, 64), GoInt(0, 4194368)}
ThreadCounts == {GoInt(-1, 5), GoInt(0, 0), GoInt(0, 4), GoInt(0, 256)}
\* Iteration counts: negative, zero, 1, 1000, and 2^32 + 1000.
IterationCounts ==
    {GoInt(-1, 5), GoInt(0, 0), GoInt(0, 1), GoInt(0, 1000), GoInt(1, 1000)}

\* The first derivation a client made and still holds the result of.
NoDerived ==
    [valid |-> FALSE, op |-> "none", args |-> [text |-> <<>>, key |-> <<>>],
     out |-> [data |-> <<>>, err |-> NoError]]

\* Goroutines that call the package at the same time.
Goroutines == 1..MaxGoroutines

\* The local variables of a call: nonce and ciphertext of EncryptBytes and
\* DecryptBytes; time, memory and threads of DeriveKey.
NoLocals ==
    [nonce |-> <<>>, ciphertext |-> <<>>, time |-> 0, memory |-> 0, threads |-> 0]

NoRand == [ok |-> FALSE, bytes |-> <<>>]

\* A goroutine that is not in a call.
Idle ==
    [fn |-> "none", args |-> [text |-> <<>>, key |-> <<>>], pc |-> "idle",
     locals |-> NoLocals, rnd |-> NoRand,
     result |-> [data |-> <<>>, err |-> NoError]]

\* ------------------------------------------------------------ state machine
Init ==
    /\ op = "none"
    /\ args = [text |-> <<>>, key |-> <<>>]
    /\ out = [data |-> <<>>, err |-> NoError]
    /\ steps = <<>>
    /\ sealed = NoSealed
    /\ derived = NoDerived
    /\ calls = [g \in Goroutines |-> Idle]
    /\ mem = NoBuffers

Returned(r) ==
    /\ out' = [data |-> r.data, err |-> r.err]
    /\ steps' = r.steps
    /\ UNCHANGED <<derived, calls>>

Sealed(p, k, rnd, r) ==
    sealed' = IF r.err = NoError
              THEN [valid |-> TRUE, key |-> k, plaintext |-> p, nonce |-> rnd.bytes,
                    text |-> r.data]
              ELSE sealed

CallEncryptBytes ==
    /\ op = "none"
    /\ \E p \in Plaintexts, k \in Keys, rnd \in RandOutcomes :
        LET r == EncryptBytes(p, k, rnd)
        IN   /\ op' = "EncryptBytes"
             /\ args' = [plaintext |-> p, key |-> k, rnd |-> rnd]
             /\ Returned(r)
             /\ Sealed(p, k, rnd, r)
             /\ mem' = EncryptBytesBuffers(p, k, rnd)

\* The keys a client encrypts with: any key at the start, the key it has
\* just generated, or the key of KeySize bytes it has just derived and not yet
\* used.
EncryptKeys ==
    IF op = "none" THEN Keys
    ELSE IF op = "GenerateKey" /\ out.err = NoError THEN {out.data}
    ELSE IF derived.valid /\ op = derived.op /\ args = derived.args
            /\ out.err = NoError /\ Len(out.data) = KeySize /\ sealed = NoSealed
    THEN {out.data}
    ELSE {}

CallEncrypt ==
    /\ \E p \in Plaintexts, k \in EncryptKeys, rnd \in RandOutcomes :
        LET r == Encrypt(p, k, rnd)
        IN   /\ op' = "Encrypt"
             /\ args' = [plaintext |-> p, key |-> k, rnd |-> rnd]
             /\ Returned(r)
             /\ Sealed(p, k, rnd, r)
             /\ mem' = [key |-> k]

\* A client decrypts at the start, after an encryption, or after it zeroized
\* the key buffer of an encryption (then with that buffer).
Decryptable ==
    \/ op \in {"none", "Encrypt", "EncryptBytes"} /\ ~derived.valid
    \/ op = "Zeroize" /\ sealed.valid

CallDecryptBytes ==
    /\ Decryptable
    /\ \E in \in DecryptInputs :
        /\ op' = "DecryptBytes"
        /\ args' = in
        /\ Returned(DecryptBytes(in.text, in.key))
        /\ mem' = [key |-> in.key]
        /\ UNCHANGED sealed

CallDecrypt ==
    /\ Decryptable
    /\ \E in \in DecryptInputs :
        /\ op' = "Decrypt"
        /\ args' = in
        /\ Returned(Decrypt(in.text, in.key))
        /\ mem' = [key |-> in.key]
        /\ UNCHANGED sealed

\* A client derives a key with function f: as its first call; or a second
\* time, right after a successful first derivation with f; or again after it
\* encrypted with the key f gave it.
DerivesWith(f) ==
    \/ op = "none"
    \/ /\ derived.valid
       /\ derived.out.err = NoError
       /\ f = derived.op
       /\ \/ op = f /\ args = derived.args /\ sealed = NoSealed
          \/ op = "Encrypt"

\* The arguments a of that call: any at the first call; at the second, those
\* of the first derivation with another salt or with other parameters; after
\* an encryption, those of the first derivation.
CanDerive(f, a) ==
    \/ op = "none"
    \/ /\ op = f
       /\ a.password = derived.args.password
       /\ a.keyLen = derived.args.keyLen
       /\ \/ a.salt = derived.args.salt
          \/ [a EXCEPT !.salt = derived.args.salt] = derived.args
    \/ /\ op = "Encrypt"
       /\ a = derived.args

KdfReturned(f, a, r) ==
    /\ CanDerive(f, a)
    /\ op' = f
    /\ args' = a
    /\ out' = [data |-> r.data, err |-> r.err, idkey |-> r.idkey]
    /\ steps' = r.steps
    /\ derived' = IF op = "none"
                  THEN [valid |-> TRUE, op |-> f, args |-> a,
                        out |-> [data |-> r.data, err |-> r.err, idkey |-> r.idkey]]
                  ELSE derived
    /\ mem' = [password |-> a.password, salt |-> a.salt]
    /\ UNCHANGED <<sealed, calls>>

CallDeriveKey ==
    /\ DerivesWith("DeriveKey")
    /\ \E pw \in Passwords, salt \in Salts, keyLen \in KeyLens, params \in ParamValues :
            KdfReturned("DeriveKey",
                        [password |-> pw, salt |-> salt, keyLen |-> keyLen,
                         params |-> params],
                        DeriveKey(pw, salt, keyLen, params))

CallDeriveKeyDefault ==
    /\ DerivesWith("DeriveKeyDefault")
    /\ \E pw \in Passwords, salt \in Salts, keyLen \in KeyLens :
            KdfReturned("DeriveKeyDefault",
                        [password |-> pw, salt |-> salt, keyLen |-> keyLen],
                        DeriveKeyDefault(pw, salt, keyLen))

CallDeriveKeyWithParams ==
    /\ DerivesWith("DeriveKeyWithParams")
    /\ \E pw \in Passwords, salt \in Salts, keyLen \in KeyLens,
           t \in Times, m \in MemoryMBs, p \in ThreadCounts :
            KdfReturned("DeriveKeyWithParams",
                        [password |-> pw, salt |-> salt, keyLen |-> keyLen,
                         time |-> t, memoryMB |-> m, threads |-> p],
                        DeriveKeyWithParams(pw, salt, t, m, p, keyLen))

CallDeriveKeyPBKDF2 ==
    /\ DerivesWith("DeriveKeyPBKDF2")
    /\ \E pw \in Passwords, salt \in Salts, keyLen \in Pbkdf2KeyLens,
           n \in IterationCounts :
            KdfReturned("DeriveKeyPBKDF2",
                        [password |-> pw, salt |-> salt, keyLen |-> keyLen,
                         iterations |-> n],
                        DeriveKeyPBKDF2(pw, salt, n, keyLen))

\* The client drops the values it holds and starts over.
Discard ==
    /\ op # "none"
    /\ op' = "none"
    /\ args' = [text |-> <<>>, key |-> <<>>]
    /\ out' = [data |-> <<>>, err |-> NoError]
    /\ steps' = <<>>
    /\ sealed' = NoSealed
    /\ derived' = NoDerived
    /\ mem' = NoBuffers
    /\ UNCHANGED calls

\* A key utility f returned r; m are the caller's buffers afterwards.
UtilReturned(f, a, r, m) ==
    /\ op' = f
    /\ args' = a
    /\ out' = [data |-> r.data, err |-> r.err]
    /\ steps' = r.steps
    /\ mem' = m
    /\ UNCHANGED <<sealed, derived, calls>>

\* The buffers a client zeroizes: any at the start, the key buffer of the
\* encryption it has just made, or the buffer it has just zeroized.
ZeroizeInputs ==
    IF op = "none" THEN EncodableKeys
    ELSE IF op \in {"Encrypt", "EncryptBytes"} /\ ~derived.valid THEN {mem.key}
    ELSE IF op = "Zeroize" THEN {mem.b}
    ELSE {}

CallZeroize ==
    \E b \in ZeroizeInputs :
        UtilReturned("Zeroize", [b |-> b], Ret(<<>>, NoError, <<"range">>),
                     [b |-> Zeroize(b)])

CallGenerateKey ==
    /\ op = "none"
    /\ \E rnd \in KeyRandOutcomes :
        UtilReturned("GenerateKey", [rnd |-> rnd], GenerateKey(rnd), mem)

\* The keys a client validates: any at the start, or what GenerateKey
\* returned.
ValidateInputs ==
    IF op = "none" THEN Keys
    ELSE IF op = "GenerateKey" THEN {out.data}
    ELSE {}

CallValidateKey ==
    \E k \in ValidateInputs :
        UtilReturned("ValidateKey", [key |-> k], ValidateKey(k), [key |-> k])

CallKeyToBase64 ==
    /\ op = "none"
    /\ \E k \in EncodableKeys :
        UtilReturned("KeyToBase64", [key |-> k], KeyToBase64(k), [key |-> k])

\* The strings a client decodes: a fixed one at the start, or the encoding
\* it has just got, as it is or with one character changed.
Base64Inputs ==
    IF op = "none" THEN FixedTexts
    ELSE IF op = "KeyToBase64" THEN {out.data} \cup Tampered(out.data)
    ELSE {}

CallKeyFromBase64 ==
    \E s \in Base64Inputs :
        UtilReturned("KeyFromBase64", [s |-> s], KeyFromBase64(s), mem)

CallKeyToHex ==
    /\ op = "none"
    /\ \E k \in EncodableKeys :
        UtilReturned("KeyToHex", [key |-> k], KeyToHex(k), [key |-> k])

HexInputs ==
    IF op = "none" THEN HexFixedTexts
    ELSE IF op = "KeyToHex" THEN {out.data} \cup HexTampered(out.data)
    ELSE {}

CallKeyFromHex ==
    \E s \in HexInputs :
        UtilReturned("KeyFromHex", [s |-> s], KeyFromHex(s), mem)

CallGetKeyFingerprint ==
    /\ op = "none"
    /\ \E k \in EncodableKeys :
        UtilReturned("GetKeyFingerprint", [key |-> k], GetKeyFingerprint(k),
                     [key |-> k])

Next ==
    \/ CallEncryptBytes
    \/ CallEncrypt
    \/ CallDecryptBytes
    \/ CallDecrypt
    \/ CallDeriveKey
    \/ CallDeriveKeyDefault
    \/ CallDeriveKeyWithParams
    \/ CallDeriveKeyPBKDF2
    \/ CallZeroize
    \/ CallGenerateKey
    \/ CallValidateKey
    \/ CallKeyToBase64
    \/ CallKeyFromBase64
    \/ CallKeyToHex
    \/ CallKeyFromHex
    \/ CallGetKeyFingerprint
    \/ Discard

Spec == Init /\ [][Next]_vars

\* ------------------------------------------------------- concurrent calls
\* The calls goroutines make, each with its own argument buffers.
ConcKey == Bytes(1, KeySize)
ConcText == EncodeToString(SealEnvelope(ConcKey, Bytes(0, NonceSize), <<255>>))
ConcCalls ==
    {[fn |-> "EncryptBytes", args |-> [plaintext |-> <<255>>, key |-> ConcKey]],
     [fn |-> "EncryptBytes", args |-> [plaintext |-> <<>>, key |-> Bytes(1, 31)]],
     [fn |-> "DecryptBytes", args |-> [text |-> ConcText, key |-> ConcKey]],
     [fn |-> "DecryptBytes", args |-> [text |-> ConcText, key |-> Bytes(2, KeySize)]],
     [fn |-> "DeriveKey",
      args |-> [password |-> <<112, 119>>, salt |-> <<115>>, keyLen |-> GoInt(0, 1),
                params |-> NilParams]],
     [fn |-> "DeriveKey",
      args |-> [password |-> <<112, 119>>, salt |-> <<116>>, keyLen |-> GoInt(0, 1),
                params |-> Params(2, 32, 2)]]}

\* The first statement of each function.
Entry(fn) == IF fn = "DeriveKey" THEN "checkPassword" ELSE "checkKeySize"

\* Variant: the nonce buffer is a package-level variable, which holds what
\* goroutine 1 read last.
Frame_SharedNonce(g) ==
    IF calls[1].locals.nonce = <<>> THEN calls[g].locals
    ELSE [calls[g].locals EXCEPT !.nonce = calls[1].locals.nonce]

\* The local variables goroutine g's call works on.
Frame(g) == calls[g].locals

Goto(g, pc, locals) == [calls[g] EXCEPT !.pc = pc, !.locals = locals]

Return(g, data, err) ==
    [calls[g] EXCEPT !.pc = "done", !.result = [data |-> data, err |-> err]]

\* One statement of EncryptBytes in goroutine g; rnd is what rand.Reader
\* gives when the statement reads the nonce.
EncryptBytesStep(g, rnd) ==
    LET a == calls[g].args
        l == Frame(g)
        pc == calls[g].pc
    IN  IF pc = "checkKeySize"
        THEN IF BadKeySize(a.key)
             THEN Return(g, <<>>, ErrInvalidKeySize(a.key))
             ELSE Goto(g, "NewCipher", l)
        ELSE IF pc = "NewCipher"
        THEN IF ~AesNewCipherOk(a.key)
             THEN Return(g, <<>>, ErrCipherInit)
             ELSE Goto(g, "NewGCM", l)
        ELSE IF pc = "NewGCM"
        THEN IF ~NewGCMOk
             THEN Return(g, <<>>, ErrGCMInit)
             ELSE Goto(g, "ReadNonce", l)
        ELSE IF pc = "ReadNonce"
        THEN IF ~rnd.ok
             THEN [Return(g, <<>>, ErrNonceGen) EXCEPT !.rnd = rnd]
             ELSE [Goto(g, "Seal", [l EXCEPT !.nonce = rnd.bytes]) EXCEPT !.rnd = rnd]
        ELSE IF pc = "Seal"
        THEN Goto(g, "EncodeToString",
                  [l EXCEPT !.ciphertext = SealEnvelope(a.key, l.nonce, a.plaintext)])
        ELSE Return(g, EncodeToString(l.ciphertext), NoError)

\* One statement of DecryptBytes in goroutine g.
DecryptBytesStep(g) ==
    LET a == calls[g].args
        l == Frame(g)
        pc == calls[g].pc
    IN  IF pc = "checkKeySize"
        THEN IF BadKeySize(a.key)
             THEN Return(g, <<>>, ErrInvalidKeySize(a.key))
             ELSE Goto(g, "checkEmpty", l)
        ELSE IF pc = "checkEmpty"
        THEN IF a.text = <<>>
             THEN Return(g, <<>>, ErrEmptyPlaintext)
             ELSE Goto(g, "DecodeString", l)
        ELSE IF pc = "DecodeString"
        THEN IF ~DecodeString(a.text).ok
             THEN Return(g, <<>>, ErrBase64Decode)
             ELSE Goto(g, "NewCipher",
                       [l EXCEPT !.ciphertext = DecodeString(a.text).bytes])
        ELSE IF pc = "NewCipher"
        THEN IF ~AesNewCipherOk(a.key)
             THEN Return(g, <<>>, ErrCipherInit)
             ELSE Goto(g, "NewGCM", l)
        ELSE IF pc = "NewGCM"
        THEN IF ~NewGCMOk
             THEN Return(g, <<>>, ErrGCMInit)
             ELSE Goto(g, "checkNonceLen", l)
        ELSE IF pc = "checkNonceLen"
        THEN IF TooShort(l.ciphertext)
             THEN Return(g, <<>>, ErrCiphertextShort)
             ELSE Goto(g, "Open", l)
        ELSE LET r == OpenEnvelope(l.ciphertext, a.key, <<>>)
             IN  Return(g, r.data, r.err)

\* One statement of DeriveKey in goroutine g.
DeriveKeyStep(g) ==
    LET a == calls[g].args
        l == Frame(g)
        pc == calls[g].pc
    IN  IF pc = "checkPassword"
        THEN IF Len(a.password) = 0
             THEN Return(g, <<>>, KdfErr("EMPTY_PASSWORD", "password cannot be empty"))
             ELSE Goto(g, "checkSalt", l)
        ELSE IF pc = "checkSalt"
        THEN IF Len(a.salt) = 0
             THEN Return(g, <<>>, KdfErr("EMPTY_SALT", "salt cannot be empty"))
             ELSE Goto(g, "checkKeyLen", l)
        ELSE IF pc = "checkKeyLen"
        THEN IF NonPositive(a.keyLen)
             THEN Return(g, <<>>, KdfErr("INVALID_KEYLEN", "key length must be positive"))
             ELSE Goto(g, "setDefaults", l)
        ELSE IF pc = "setDefaults"
        THEN Goto(g, "override",
                  [l EXCEPT !.time = DefaultTime, !.memory = DefaultMemory * 1024,
                            !.threads = DefaultThreads])
        ELSE IF pc = "override"
        THEN Goto(g, "IDKey",
                  IF a.params.isNil THEN l
                  ELSE [l EXCEPT
                          !.time = IF a.params.Time > 0 THEN a.params.Time ELSE @,
                          !.memory = IF a.params.Memory > 0
                                     THEN MemoryKB(a.params.Memory) ELSE @,
                          !.threads = IF a.params.Threads > 0
                                      THEN a.params.Threads ELSE @])
        ELSE LET r == CallIDKey(a.password, a.salt, l.time, l.memory, l.threads,
                                Uint32(a.keyLen), <<>>)
             IN  Return(g, r.data, r.err)

Sequential == UNCHANGED <<op, args, out, steps, sealed, derived, mem>>

\* Goroutine g calls a function.
Start(g) ==
    /\ calls[g].pc = "idle"
    /\ \E c \in ConcCalls :
        calls' = [calls EXCEPT ![g] =
                    [Idle EXCEPT !.fn = c.fn, !.args = c.args, !.pc = Entry(c.fn)]]
    /\ Sequential

Running(g, fn) == calls[g].fn = fn /\ calls[g].pc \notin {"idle", "done"}

StepEncryptBytes(g) ==
    /\ Running(g, "EncryptBytes")
    /\ \E rnd \in (IF calls[g].pc = "ReadNonce" THEN RandOutcomes ELSE {NoRand}) :
        calls' = [calls EXCEPT ![g] = EncryptBytesStep(g, rnd)]
    /\ Sequential

StepDecryptBytes(g) ==
    /\ Running(g, "DecryptBytes")
    /\ calls' = [calls EXCEPT ![g] = DecryptBytesStep(g)]
    /\ Sequential

StepDeriveKey(g) ==
    /\ Running(g, "DeriveKey")
    /\ calls' = [calls EXCEPT ![g] = DeriveKeyStep(g)]
    /\ Sequential

\* The caller of goroutine g takes the result; the goroutine may call again.
Finish(g) ==
    /\ calls[g].pc = "done"
    /\ calls' = [calls EXCEPT ![g] = Idle]
    /\ Sequential

ConcNext ==
    \E g \in Goroutines :
        \/ Start(g)
        \/ StepEncryptBytes(g)
        \/ StepDecryptBytes(g)
        \/ StepDeriveKey(g)
        \/ Finish(g)

ConcSpec == Init /\ [][ConcNext]_vars

\* ------------------------------------------------------------- properties
IsEnc == op \in {"Encrypt", "EncryptBytes"}
IsDec == op \in {"Decrypt", "DecryptBytes"}

\* The text differs from s in exactly one character.
IsTampered(t, s) ==
    /\ Len(t) = Len(s)
    /\ Cardinality({i \in 1..Len(s) : t[i] # s[i]}) = 1

\* The call decrypts the sealed text as returned, with the sealing key.
DecryptsSealed ==
    /\ IsDec
    /\ sealed.valid
    /\ args.text = sealed.text
    /\ args.key = sealed.key

\* C1 as stated: with a key of 32 bytes Encrypt succeeds for every plaintext,
\* and Decrypt of its output with the same key returns the plaintext and no
\* error.
C1_AsStated ==
    /\ (IsEnc /\ Len(args.key) = KeySize) => out.err = NoError
    /\ DecryptsSealed => (out.err = NoError /\ out.data = sealed.plaintext)

\* C1: with a key of 32 bytes Encrypt succeeds for every plaintext whenever
\* the nonce could be read from rand.Reader, and fails with ErrNonceGen when it
\* could not; Decrypt of a returned text with the same key returns the
\* plaintext and no error.
C1_RoundTrip ==
    /\ (IsEnc /\ Len(args.key) = KeySize) =>
           /\ args.rnd.ok => (out.err = NoError /\ sealed.plaintext = args.plaintext)
           /\ ~args.rnd.ok => out.err = ErrNonceGen
    /\ DecryptsSealed => (out.err = NoError /\ out.data = sealed.plaintext)

C1_Witness ==
    /\ DecryptsSealed
    /\ Len(sealed.plaintext) > 0
    /\ out.err = NoError
    /\ out.data = sealed.plaintext

\* C2: after any single character of a text returned by Encrypt was changed,
\* Decrypt with the sealing key fails with ErrDecrypt and returns no data.
C2_TamperDetected ==
    (IsDec /\ sealed.valid /\ args.key = sealed.key
        /\ IsTampered(args.text, sealed.text))
    => (out.err = ErrDecrypt /\ out.data = <<>>)

\* The text decodes to an envelope of at least nonce plus tag.
WellFormed(t) ==
    LET d == DecodeString(t)
    IN  d.ok /\ Len(d.bytes) >= NonceSize + TagSize

\* A well-formed envelope that is not the sealed one under the sealing key: the
\* key is another 32-byte key, or the envelope was changed, cut or extended.
AuthCase ==
    /\ IsDec
    /\ sealed.valid
    /\ Len(args.key) = KeySize
    /\ WellFormed(args.text)
    /\ (args.key # sealed.key \/ EnvelopeOf(args.text) # EnvelopeOf(sealed.text))

\* C3: a wrong key, a corrupted envelope and a tampered envelope all give the
\* one ErrDecrypt error (same sentinel, code, message and cause) and no data.
C3_AuthFailureUniform ==
    AuthCase => (out.err = ErrDecrypt /\ out.data = <<>>)

C3_Witness ==
    /\ AuthCase
    /\ args.key = sealed.key
    /\ IsTampered(args.text, sealed.text)
    /\ out.err = ErrDecrypt

\* C4: Encrypt and Decrypt fail with ErrInvalidKeySize exactly when the key is
\* not 32 bytes long, whatever the other argument is.
C4_KeyLength ==
    (IsEnc \/ IsDec) =>
        /\ Len(args.key) # 32 => out.err = ErrInvalidKeySize(args.key)
        /\ Len(args.key) = 32 => out.err.sentinel # "ErrInvalidKeySize"

C4_Witness ==
    /\ IsDec
    /\ Len(args.key) = 33
    /\ args.text # <<>>
    /\ out.err.sentinel = "ErrInvalidKeySize"

\* C5: Decrypt with a 32-byte key of a non-empty text whose envelope is shorter
\* than the nonce fails with ErrCiphertextShort: no panic, no data.
C5_EnvelopeTooShort ==
    (IsDec /\ Len(args.key) = KeySize /\ args.text # <<>>
        /\ DecodeString(args.text).ok /\ Len(EnvelopeOf(args.text)) < 12)
    => (out.err = ErrCiphertextShort /\ out.data = <<>>)

C5_Witness ==
    /\ IsDec
    /\ Len(args.key) = KeySize
    /\ DecodeString(args.text).ok
    /\ Len(EnvelopeOf(args.text)) = 11
    /\ out.err = ErrCiphertextShort

\* C6: a call of Encrypt, EncryptBytes, Decrypt or DecryptBytes that returns an
\* error returns empty data.
C6_NoPartialOutput ==
    ((IsEnc \/ IsDec) /\ out.err # NoError) => Len(out.data) = 0

C6_Witness ==
    /\ IsDec
    /\ sealed.valid
    /\ Len(sealed.plaintext) > 0
    /\ IsTampered(args.text, sealed.text)
    /\ out.err = ErrDecrypt
    /\ Len(out.data) = 0

ValidationSteps ==
    {"checkKeySize", "checkEmpty", "checkNonceLen", "checkPassword", "checkSalt",
     "checkKeyLen", "checkTime", "checkMemory", "checkThreads", "checkIterations"}
CryptoSteps ==
    {"NewCipher", "NewGCM", "ReadNonce", "Seal", "Open", "IDKey", "pbkdf2.Key"}

\* C8 as stated: in every call, no validation check is evaluated after a step
\* of cryptographic work.
C8_AsStated ==
    \A i, j \in 1..Len(steps) :
        (i < j /\ steps[i] \in CryptoSteps) => steps[j] \notin ValidationSteps

\* C8: in every call, no validation check is evaluated after a step of
\* cryptographic work, except the envelope-shorter-than-nonce check of
\* Decrypt, which is evaluated after the block cipher and the GCM mode were
\* constructed and before gcm.Open.
C8_ValidationFirst ==
    \A i, j \in 1..Len(steps) :
        (i < j /\ steps[i] \in CryptoSteps /\ steps[j] \in ValidationSteps)
        => (IsDec /\ steps[j] = "checkNonceLen" /\ steps[i] \in {"NewCipher", "NewGCM"})

C8_Witness ==
    /\ IsDec
    /\ \E i, j \in 1..Len(steps) :
        /\ i < j
        /\ steps[i] = "checkNonceLen"
        /\ steps[j] = "Open"
    /\ \E i \in 1..Len(steps) : steps[i] = "NewGCM"

\* C9: the text Encrypt returns decodes to the nonce used for sealing followed
\* by len(plaintext) + 16 bytes (28 bytes in all for the empty plaintext), and
\* Encrypt never returns ErrEmptyPlaintext.
C9_EnvelopeShape ==
    IsEnc =>
        /\ out.err.sentinel # "ErrEmptyPlaintext"
        /\ out.err = NoError =>
            LET d == DecodeString(out.data)
            IN  /\ d.ok
                /\ Len(d.bytes) = 12 + Len(args.plaintext) + 16
                /\ SubSeq(d.bytes, 1, 12) = args.rnd.bytes
                /\ args.plaintext = <<>> => Len(d.bytes) = 28

C9_Witness ==
    /\ IsEnc
    /\ out.err = NoError
    /\ args.plaintext = <<>>
    /\ Len(EnvelopeOf(out.data)) = 28

\* C10: DeriveKey resolves Time, Memory and Threads one by one: the field of
\* params when params is not nil and the field is positive, else the default
\* (3, 64 MB, 4); Memory reaches Argon2id in KB.
C10_ParamResolution ==
    (op = "DeriveKey" /\ out.err = NoError) =>
        LET p == args.params
        IN  /\ out.idkey.time = (IF ~p.isNil /\ p.Time > 0 THEN p.Time ELSE 3)
            /\ out.idkey.memory =
                   (IF ~p.isNil /\ p.Memory > 0 THEN MemoryKB(p.Memory) ELSE 64 * 1024)
            /\ out.idkey.threads = (IF ~p.isNil /\ p.Threads > 0 THEN p.Threads ELSE 4)
            /\ (p.isNil \/ (p.Time = 0 /\ p.Memory = 0 /\ p.Threads = 0)) =>
                   (out.idkey.time = 3 /\ out.idkey.memory = 65536
                       /\ out.idkey.threads = 4)

C10_Witness ==
    /\ op = "DeriveKey"
    /\ out.err = NoError
    /\ args.params = Params(2, 0, 0)
    /\ out.idkey.time = 2
    /\ out.idkey.memory = 65536
    /\ out.idkey.threads = 4

\* ---------------------------------------------- properties of key derivation
IsPositive(v) == v.hi > 0 \/ (v.hi = 0 /\ v.lo > 0)

ReachedIDKey == \E i \in 1..Len(steps) : steps[i] = "IDKey"

\* C11: whenever DeriveKey is given a positive KDFParams.Memory, or
\* DeriveKeyWithParams a positive memoryMB, the memory handed to Argon2id is
\* exactly that number of MB times 1024, without wrap-around or truncation.
C11_MemoryScaled ==
    /\ (op = "DeriveKey" /\ ReachedIDKey /\ ~args.params.isNil
            /\ args.params.Memory > 0)
        => /\ out.idkey.memory % 1024 = 0
           /\ out.idkey.memory \div 1024 = args.params.Memory
    /\ (op = "DeriveKeyWithParams" /\ ReachedIDKey)
        => /\ args.memoryMB.hi = 0
           /\ out.idkey.memory % 1024 = 0
           /\ out.idkey.memory \div 1024 = args.memoryMB.lo

\* The code of the first check that fails, in the order password, salt,
\* time, memoryMB, threads, iterations, keyLen, over the arguments the
\* function has; "" when every check passes.
FirstInvalid(a, numeric) ==
    IF Len(a.password) = 0 THEN "EMPTY_PASSWORD"
    ELSE IF Len(a.salt) = 0 THEN "EMPTY_SALT"
    ELSE IF "time" \in numeric /\ ~IsPositive(a.time) THEN "INVALID_TIME"
    ELSE IF "memoryMB" \in numeric /\ ~IsPositive(a.memoryMB) THEN "INVALID_MEMORY"
    ELSE IF "threads" \in numeric /\ ~IsPositive(a.threads) THEN "INVALID_THREADS"
    ELSE IF "iterations" \in numeric /\ ~IsPositive(a.iterations)
    THEN "INVALID_ITERATIONS"
    ELSE IF ~IsPositive(a.keyLen) THEN "INVALID_KEYLEN"
    ELSE ""

\* C12: DeriveKey and DeriveKeyPBKDF2 return a nil key and an error exactly
\* when the password is empty, the salt is empty, iterations <= 0 (PBKDF2) or
\* keyLen <= 0; the error carries the code of the first check that fails in
\* the order password, salt, iterations, keyLen; otherwise they return a key
\* and no error.
C12_Validation ==
    (op \in {"DeriveKey", "DeriveKeyPBKDF2"}) =>
        LET e == FirstInvalid(args, IF op = "DeriveKey" THEN {} ELSE {"iterations"})
        IN  IF e = ""
            THEN out.err = NoError /\ Len(out.data) > 0
            ELSE out.err.code = e /\ out.err # NoError /\ out.data = <<>>

C12_Witness ==
    /\ op = "DeriveKeyPBKDF2"
    /\ Len(args.password) > 0
    /\ Len(args.salt) > 0
    /\ ~IsPositive(args.iterations)
    /\ ~IsPositive(args.keyLen)
    /\ out.err.code = "INVALID_ITERATIONS"
    /\ out.data = <<>>

\* C13: with a non-empty password, a non-empty salt and strictly positive
\* numeric arguments, DeriveKey (with any params, nil included) and
\* DeriveKeyWithParams return a key and a nil error; they never panic.
C13_NoOtherFailure ==
    /\ (op = "DeriveKey" /\ FirstInvalid(args, {}) = "")
        => (out.err = NoError /\ Len(out.data) > 0)
    /\ (op = "DeriveKeyWithParams"
            /\ FirstInvalid(args, {"time", "memoryMB", "threads"}) = "")
        => (out.err = NoError /\ Len(out.data) > 0)

\* C14: the key DeriveKey, DeriveKeyDefault and DeriveKeyWithParams return
\* for a positive keyLen has exactly keyLen bytes.
C14_KeyLength ==
    (op \in {"DeriveKey", "DeriveKeyDefault", "DeriveKeyWithParams"}
        /\ out.err = NoError)
    => (args.keyLen.hi = 0 /\ Len(out.data) = args.keyLen.lo)

\* C15: DeriveKeyWithParams rejects a zero or negative time, memoryMB, threads
\* or keyLen with INVALID_TIME, INVALID_MEMORY, INVALID_THREADS or
\* INVALID_KEYLEN and a nil key, reporting the first failing check in the
\* order password, salt, time, memoryMB, threads, keyLen; it never hands
\* Argon2id a default in place of a non-positive value.
C15_ParamsValidation ==
    (op = "DeriveKeyWithParams") =>
        LET e == FirstInvalid(args, {"time", "memoryMB", "threads"})
        IN  /\ (e # "") => /\ out.err.code = e
                           /\ out.data = <<>>
                           /\ ~ReachedIDKey
            /\ ReachedIDKey => /\ IsPositive(args.time)
                               /\ IsPositive(args.memoryMB)
                               /\ IsPositive(args.threads)
                               /\ IsPositive(args.keyLen)

C15_Witness ==
    /\ op = "DeriveKeyWithParams"
    /\ Len(args.password) > 0
    /\ Len(args.salt) > 0
    /\ IsPositive(args.time)
    /\ args.memoryMB = GoInt(0, 0)
    /\ ~IsPositive(args.threads)
    /\ ~IsPositive(args.keyLen)
    /\ out.err.code = "INVALID_MEMORY"
    /\ out.data = <<>>
    /\ ~ReachedIDKey

KdfOps == {"DeriveKey", "DeriveKeyDefault", "DeriveKeyWithParams", "DeriveKeyPBKDF2"}

\* The call just made is a later call of the function first derived with.
DerivedAgain == derived.valid /\ op = derived.op /\ op \in KdfOps

SaltsDiffer ==
    /\ DerivedAgain
    /\ Len(args.salt) > 0
    /\ Len(derived.args.salt) > 0
    /\ args.salt # derived.args.salt
    /\ [args EXCEPT !.salt = derived.args.salt] = derived.args

Resolved(p) ==
    << IF ~p.isNil /\ p.Time > 0 THEN p.Time ELSE 3,
       IF ~p.isNil /\ p.Memory > 0 THEN p.Memory ELSE 64,
       IF ~p.isNil /\ p.Threads > 0 THEN p.Threads ELSE 4 >>

\* The two derivations are DeriveKey calls with the same password, salt and
\* keyLen.
ParamsOnlyDiffer ==
    /\ DerivedAgain
    /\ op = "DeriveKey"
    /\ out.err = NoError
    /\ derived.out.err = NoError
    /\ [args EXCEPT !.params = derived.args.params] = derived.args

\* C18: two DeriveKey calls with the same password, salt and keyLen whose
\* params resolve to different (time, memory, threads) return different keys.
C18_OverrideChangesKey ==
    (ParamsOnlyDiffer /\ Resolved(args.params) # Resolved(derived.args.params))
    => out.data # derived.out.data

\* Two DeriveKey calls with the same password, salt and keyLen that hand
\* Argon2id different (time, memory in KB, threads) return different keys.
HandedOverChangesKey ==
    (ParamsOnlyDiffer /\ out.idkey # derived.out.idkey)
    => out.data # derived.out.data

\* Params with Time = 2 gives a key different from the key nil params gives.
TimeTwoChangesKey ==
    (ParamsOnlyDiffer /\ derived.args.params = NilParams
        /\ args.params = Params(2, 0, 0))
    => out.data # derived.out.data

\* C19: for a non-empty password and salt, a positive iteration count and a
\* positive keyLen, DeriveKeyPBKDF2 returns no error and a key of exactly
\* keyLen bytes, however large the iteration count and keyLen.
C19_Pbkdf2Length ==
    (op = "DeriveKeyPBKDF2" /\ Len(args.password) > 0 /\ Len(args.salt) > 0
        /\ IsPositive(args.iterations) /\ IsPositive(args.keyLen))
    => /\ out.err = NoError
       /\ args.keyLen.hi = 0
       /\ Len(out.data) = args.keyLen.lo

C19_Witness ==
    /\ op = "DeriveKeyPBKDF2"
    /\ args.iterations = GoInt(1, 1000)
    /\ args.keyLen = GoInt(0, 1024)
    /\ out.err = NoError
    /\ Len(out.data) = 1024

\* What goroutine g's call returns when it runs alone.
Alone(g) ==
    LET c == calls[g]
        r == IF c.fn = "EncryptBytes"
             THEN EncryptBytes(c.args.plaintext, c.args.key, c.rnd)
             ELSE IF c.fn = "DecryptBytes"
             THEN DecryptBytes(c.args.text, c.args.key)
             ELSE DeriveKey(c.args.password, c.args.salt, c.args.keyLen, c.args.params)
    IN  [data |-> r.data, err |-> r.err]

\* C20: in every interleaving of concurrent EncryptBytes, DecryptBytes and
\* DeriveKey calls, a call that has returned has returned what it returns
\* when it runs alone, and an envelope EncryptBytes returned decrypts to the
\* call's own plaintext under the call's own key.
C20_ConcurrentIndependence ==
    \A g \in Goroutines :
        (calls[g].pc = "done") =>
            /\ calls[g].result = Alone(g)
            /\ (calls[g].fn = "EncryptBytes" /\ calls[g].result.err = NoError)
                => LET d == DecryptBytes(calls[g].result.data, calls[g].args.key)
                   IN  d.err = NoError /\ d.data = calls[g].args.plaintext

C20_Witness ==
    /\ calls[1].pc = "done"
    /\ calls[1].fn = "EncryptBytes"
    /\ calls[1].result.err = NoError
    /\ calls[2].pc = "done"
    /\ calls[2].fn = "DeriveKey"
    /\ calls[2].args.params = Params(2, 32, 2)
    /\ calls[2].result.err = NoError
    /\ calls[2].result = Alone(2)

\* ------------------------------------------------------------------ C21
\* The byte-slice parameters of each function.
BufferArgs(f) ==
    IF f = "EncryptBytes" THEN {"plaintext", "key"}
    ELSE IF f \in {"Encrypt", "Decrypt", "DecryptBytes", "ValidateKey", "KeyToBase64",
                   "KeyToHex", "GetKeyFingerprint"} THEN {"key"}
    ELSE IF f \in {"DeriveKey", "DeriveKeyDefault", "DeriveKeyWithParams",
                   "DeriveKeyPBKDF2"} THEN {"password", "salt"}
    ELSE IF f = "Zeroize" THEN {"b"}
    ELSE {}

\* The functions that take a byte slice and are not Zeroize.
ReadOnlyOps ==
    {"EncryptBytes", "Encrypt", "Decrypt", "DecryptBytes", "ValidateKey",
     "KeyToBase64", "KeyToHex", "GetKeyFingerprint", "DeriveKey", "DeriveKeyDefault",
     "DeriveKeyWithParams", "DeriveKeyPBKDF2"}

C22_KeyValidation ==
    /\ op = "ValidateKey" =>
        /\ (out.err = NoError) <=> (Len(args.key) = KeySize)
        /\ out.err # NoError => out.err.code = "INVALID_KEY_SIZE"
    /\ (op = "GenerateKey" /\ out.err = NoError) =>
        /\ Len(out.data) = KeySize
        /\ ValidateKey(out.data).err = NoError
        /\ \A p \in Plaintexts, rnd \in RandOutcomes :
              Encrypt(p, out.data, rnd).err.sentinel # "ErrInvalidKeySize"
        /\ \A t \in FixedTexts :
              Decrypt(t, out.data).err.sentinel # "ErrInvalidKeySize"

\* ValidateKey accepted the key GenerateKey had returned.
C22_Witness ==
    /\ op = "ValidateKey"
    /\ out.err = NoError
    /\ \E rnd \in KeyRandOutcomes : rnd.ok /\ args.key = GenerateKey(rnd).data

\* ------------------------------------------------------------------ C23
\* C23: when Zeroize(b) has returned, b has the length it had and every byte
\* of it is zero, for every buffer including the empty one; there is no
\* failure, and zeroizing the buffer again leaves it as it is.
C23_Zeroize ==
    op = "Zeroize" =>
        /\ out.err = NoError
        /\ Len(mem.b) = Len(args.b)
        /\ \A i \in 1..Len(mem.b) : mem.b[i] = 0
        /\ Zeroize(mem.b) = mem.b

\* A key of 32 non-zero bytes was zeroized.
C23_Witness ==
    /\ op = "Zeroize"
    /\ Len(args.b) = KeySize
    /\ \A i \in 1..KeySize : args.b[i] # 0
    /\ mem.b = Bytes(0, KeySize)

\* ------------------------------------------------------------------ C24
\* C24: decoding what KeyToBase64 or KeyToHex returned for k gives k and a nil
\* error; when the decoder rejects the string, KeyFromBase64 and KeyFromHex
\* return no key and an error with the code BASE64_DECODE_ERROR or
\* HEX_DECODE_ERROR.
C24_EncodingRoundTrip ==
    /\ op = "KeyToBase64" =>
        /\ KeyFromBase64(out.data).data = args.key
        /\ KeyFromBase64(out.data).err = NoError
    /\ op = "KeyToHex" =>
        /\ KeyFromHex(out.data).data = args.key
        /\ KeyFromHex(out.data).err = NoError
    /\ op = "KeyFromBase64" =>
        /\ (DOMAIN mem = {"key"} /\ args.s = EncodeToString(mem.key)) =>
              out = [data |-> mem.key, err |-> NoError]
        /\ ~DecodeString(args.s).ok =>
              /\ out.data = <<>>
              /\ out.err.code = "BASE64_DECODE_ERROR"
    /\ op = "KeyFromHex" =>
        /\ (DOMAIN mem = {"key"} /\ args.s = HexEncodeToString(mem.key)) =>
              out = [data |-> mem.key, err |-> NoError]
        /\ ~HexDecodeString(args.s).ok =>
              /\ out.data = <<>>
              /\ out.err.code = "HEX_DECODE_ERROR"

\* KeyFromHex decoded the encoding of a 32-byte key back to that key.
C24_Witness ==
    /\ op = "KeyFromHex"
    /\ DOMAIN mem = {"key"}
    /\ mem.key \in GoodKeys
    /\ args.s = HexEncodeToString(mem.key)
    /\ out = [data |-> mem.key, err |-> NoError]

\* KeyFromHex rejected a string with an odd number of digits.
C24_WitnessOdd ==
    /\ op = "KeyFromHex"
    /\ Len(args.s) % 2 = 1
    /\ out.err.code = "HEX_DECODE_ERROR"

\* ------------------------------------------------------------------ C25
\* The byte slice b and one of its length that differs from it in every byte.
SameLength(b) == {b, [i \in 1..Len(b) |-> 255 - b[i]]}

\* What the call of the current state returns when its key, plaintext,
\* password and salt are replaced by k, p, pw and s.
CallWith(k, p, pw, s) ==
    IF op \in {"Encrypt", "EncryptBytes"} THEN EncryptBytes(p, k, args.rnd)
    ELSE IF op = "Decrypt" THEN Decrypt(args.text, k)
    ELSE IF op = "DecryptBytes" THEN DecryptBytes(args.text, k)
    ELSE IF op = "ValidateKey" THEN ValidateKey(k)
    ELSE IF op = "DeriveKey" THEN DeriveKey(pw, s, args.keyLen, args.params)
    ELSE IF op = "DeriveKeyDefault" THEN DeriveKeyDefault(pw, s, args.keyLen)
    ELSE IF op = "DeriveKeyWithParams"
    THEN DeriveKeyWithParams(pw, s, args.time, args.memoryMB, args.threads,
                             args.keyLen)
    ELSE DeriveKeyPBKDF2(pw, s, args.iterations, args.keyLen)

\* The secret arguments of the call of the current state; an empty slice for
\* those the function does not take.
SecretArg(name) == IF name \in DOMAIN args THEN args[name] ELSE <<>>

\* The operations that take a key, a plaintext, a password or a salt and can
\* fail.
FailingOps ==
    {"Encrypt", "EncryptBytes", "Decrypt", "DecryptBytes", "ValidateKey",
     "DeriveKey", "DeriveKeyDefault", "DeriveKeyWithParams", "DeriveKeyPBKDF2"}

C26_LosslessNarrowing ==
    (op = "DeriveKeyWithParams" /\ ReachedIDKey) =>
        /\ args.time.hi = 0
        /\ out.idkey.time = args.time.lo
        /\ out.idkey.time >= 1
        /\ args.threads.hi = 0
        /\ out.idkey.threads = args.threads.lo
        /\ out.idkey.threads >= 1

\* ------------------------------------------------------------------ C27
\* The decoded envelope of the text of the current call.
Decoded == DecodeString(args.text)

\* C27: Decrypt reports the first failing check in the order key length, empty
\* input, base64 decoding, envelope shorter than the nonce, authentication: a
\* key of another length than 32 gives ErrInvalidKeySize whatever the input;
\* with a 32-byte key an empty input gives ErrEmptyPlaintext, an input that is
\* not base64 gives ErrBase64Decode whatever its length, a decoded envelope of
\* fewer than 12 bytes gives ErrCiphertextShort, and what is left fails, if at
\* all, with ErrDecrypt.
C27_ErrorPrecedence ==
    op \in {"Decrypt", "DecryptBytes"} =>
        /\ Len(args.key) # KeySize => out.err.sentinel = "ErrInvalidKeySize"
        /\ (Len(args.key) = KeySize /\ args.text = <<>>)
              => out.err.sentinel = "ErrEmptyPlaintext"
        /\ (Len(args.key) = KeySize /\ args.text # <<>>) =>
              LET dec == Decoded
              IN  /\ ~dec.ok => out.err.sentinel = "ErrBase64Decode"
                  /\ (dec.ok /\ Len(dec.bytes) < NonceSize)
                        => out.err.sentinel = "ErrCiphertextShort"
                  /\ (dec.ok /\ Len(dec.bytes) >= NonceSize)
                        => out.err.sentinel \in {"ErrDecrypt", "nil"}

\* Decrypt was called with a key of the wrong length and an empty input and
\* reported the key.
C27_Witness ==
    /\ op = "Decrypt"
    /\ Len(args.key) # KeySize
    /\ args.text = <<>>
    /\ out.err.sentinel = "ErrInvalidKeySize"

\* Decrypt was called with a 32-byte key and a one-character input that is not
\* base64 and reported the decoding.
C27_WitnessShortInvalid ==
    /\ op = "Decrypt"
    /\ Len(args.key) = KeySize
    /\ Len(args.text) = 1
    /\ out.err.sentinel = "ErrBase64Decode"

\* ------------------------------------------------------------------ C28
\* C28: with a 32-byte key, an input whose decoded envelope has 12 to 27 bytes
\* fails with ErrDecrypt and returns no data; ErrCiphertextShort is returned
\* only when the input decodes to 0 to 11 bytes.
C28_EnvelopeWithoutTag ==
    op \in {"Decrypt", "DecryptBytes"} =>
        /\ (Len(args.key) = KeySize /\ args.text # <<>>) =>
              LET dec == Decoded
              IN  (dec.ok /\ Len(dec.bytes) \in NonceSize..(NonceSize + TagSize - 1))
                  => /\ out.err.sentinel = "ErrDecrypt"
                     /\ out.data = <<>>
        /\ out.err.sentinel = "ErrCiphertextShort"
              => /\ Decoded.ok
                 /\ Len(Decoded.bytes) \in 0..(NonceSize - 1)

\* Decrypt was given an envelope of exactly 12 bytes and failed with ErrDecrypt.
C28_Witness ==
    /\ op = "Decrypt"
    /\ Len(args.key) = KeySize
    /\ Decoded.ok
    /\ Len(Decoded.bytes) = NonceSize
    /\ out.err.sentinel = "ErrDecrypt"
    /\ out.data = <<>>

\* ------------------------------------------------------------------ C29
\* The key and the error of a derivation.
KeyAndError(r) == [data |-> r.data, err |-> r.err]

\* The parameters that stand for the defaults: nil, all zero, and the default
\* values themselves.
DefaultParams ==
    {NilParams, Params(0, 0, 0), Params(DefaultTime, DefaultMemory, DefaultThreads)}

\* C29: for a non-empty password and salt and a positive keyLen,
\* DeriveKeyDefault, DeriveKey with nil params, with params {0,0,0} and with
\* params {3,64,4}, and DeriveKeyWithParams(3, 64, 4) return the same key and
\* error; DeriveKey with params {t, m, p}, all positive, returns what
\* DeriveKeyWithParams(t, m, p) returns.
C29_EntryPointsAgree ==
    /\ (op = "DeriveKey" /\ FirstInvalid(args, {}) = "") =>
        /\ args.params \in DefaultParams =>
            /\ [data |-> out.data, err |-> out.err]
                 = KeyAndError(DeriveKeyDefault(args.password, args.salt, args.keyLen))
            /\ [data |-> out.data, err |-> out.err]
                 = KeyAndError(DeriveKeyWithParams(args.password, args.salt,
                       GoInt(0, DefaultTime), GoInt(0, DefaultMemory),
                       GoInt(0, DefaultThreads), args.keyLen))
            /\ \A q \in DefaultParams :
                 [data |-> out.data, err |-> out.err]
                 = KeyAndError(DeriveKey(args.password, args.salt, args.keyLen, q))
        /\ (~args.params.isNil /\ args.params.Time > 0 /\ args.params.Memory > 0
                /\ args.params.Threads > 0) =>
            [data |-> out.data, err |-> out.err]
              = KeyAndError(DeriveKeyWithParams(args.password, args.salt,
                    GoInt(0, args.params.Time), GoInt(0, args.params.Memory),
                    GoInt(0, args.params.Threads), args.keyLen))
    /\ (op = "DeriveKeyDefault" /\ FirstInvalid(args, {}) = "") =>
        [data |-> out.data, err |-> out.err]
          = KeyAndError(DeriveKey(args.password, args.salt, args.keyLen, NilParams))

\* DeriveKey returned a 32-byte key for params {2, 32, 2}, the key
\* DeriveKeyWithParams(2, 32, 2) returns.
C29_Witness ==
    /\ op = "DeriveKey"
    /\ args.params = Params(2, 32, 2)
    /\ out.err = NoError
    /\ Len(out.data) = KeySize
    /\ out.data = DeriveKeyWithParams(args.password, args.salt, GoInt(0, 2),
                                      GoInt(0, 32), GoInt(0, 2), args.keyLen).data

\* ------------------------------------------------------------------ C30
\* C30: once the 32-byte key buffer of an encryption, not all zero, has been
\* zeroized, Decrypt of the encrypted text with that buffer passes the key
\* length check and fails with ErrDecrypt, returning no data.
C30_ZeroizedKeyFails ==
    (/\ op \in {"Decrypt", "DecryptBytes"}
     /\ sealed.valid
     /\ sealed.key # Bytes(0, KeySize)
     /\ args.text = sealed.text
     /\ args.key = Zeroize(sealed.key))
    => /\ out.err.sentinel = "ErrDecrypt"
       /\ out.data = <<>>
       /\ "checkKeySize" \in {steps[i] : i \in 1..Len(steps)}

\* Decrypt was called with the zeroized key buffer of an encryption of a
\* non-empty plaintext and failed with ErrDecrypt.
C30_Witness ==
    /\ op = "Decrypt"
    /\ sealed.valid
    /\ sealed.key \in GoodKeys
    /\ Len(sealed.plaintext) > 0
    /\ args.text = sealed.text
    /\ args.key = Bytes(0, KeySize)
    /\ mem.key = Bytes(0, KeySize)
    /\ out.err.sentinel = "ErrDecrypt"

====
